---- MODULE Spec2Model ----
(***************************************************************************)
(* The HTTP relay command http_request of src-tauri/src/lib.rs.            *)
(*                                                                         *)
(* Strings and byte buffers are sequences of byte values, so that the      *)
(* conversions the command applies (method and header parsing, header-name *)
(* normalisation, JSON encoding and decoding, lossy UTF-8 decoding) are    *)
(* computed and not assumed.  A JSON value is [t, v] with v a sequence:    *)
(* <<n>> for a number, the code points for a string, the elements for an   *)
(* array.  An Option is a sequence of length 0 (None) or 1 (Some).         *)
(***************************************************************************)
EXTENDS Integers, Sequences, FiniteSets, TLC

\* ------------------------------------------------------------------ bounds

\* Longest response body, in bytes, the server sends when it may send any bytes.
MaxBodyLen == 3

\* ----------------------------------------------------------------- options

None == <<>>

Some(x) == <<x>>

IsSome(o) == Len(o) = 1

Unwrap(o) == o[1]

\* ----------------------------------------------------------------- strings

\* The two invocations that may run concurrently.
Inv == {1, 2}

\* The methods, as bytes: "GET".
M_GET == <<71, 69, 84>>

\* "get": not a standard method, but a valid token (an extension method).
M_get == <<103, 101, 116>>

\* "G E T"
M_G_E_T == <<71, 32, 69, 32, 84>>

M_empty == <<>>

\* "Content-Type", "content-type", "Accept", and the malformed name "b d".
H_ContentType == <<67, 111, 110, 116, 101, 110, 116, 45, 84, 121, 112, 101>>

H_content_type == <<99, 111, 110, 116, 101, 110, 116, 45, 116, 121, 112, 101>>

H_Accept == <<65, 99, 99, 101, 112, 116>>

H_accept == <<97, 99, 99, 101, 112, 116>>

H_b_d == <<98, 32, 100>>

\* "text/plain", "text/html", "application/json", "*/*", and "a\nb" (malformed).
V_text_plain == <<116, 101, 120, 116, 47, 112, 108, 97, 105, 110>>

V_text_html == <<116, 101, 120, 116, 47, 104, 116, 109, 108>>

V_application_json ==
    <<97, 112, 112, 108, 105, 99, 97, 116, 105, 111, 110, 47, 106, 115, 111, 110>>

V_any == <<42, 47, 42>>

V_a_nl_b == <<97, 10, 98>>

\* ------------------------------------------------- http::Method, HeaderName

\* RFC 7230 tchar: the bytes http's METHOD_CHARS and HEADER_CHARS tables accept.
IsTokenByte(b) ==
    \/ b \in 48..57
    \/ b \in 65..90
    \/ b \in 97..122
    \/ b \in {33, 35, 36, 37, 38, 39, 42, 43, 45, 46, 94, 95, 96, 124, 126}

IsToken(s) == Len(s) > 0 /\ \A k \in 1..Len(s) : IsTokenByte(s[k])

\* A parse that lets every string through.
ParseAnyMethod(s) == [ok |-> TRUE, val |-> s]

\* request.method.parse::<reqwest::Method>(): the token itself, case kept.

ParseMethod(s) ==
    IF IsToken(s) THEN [ok |-> TRUE, val |-> s] ELSE [ok |-> FALSE, val |-> <<>>]

ToLowerByte(b) == IF b \in 65..90 THEN b + 32 ELSE b

\* HeaderName::from_bytes: a token, stored in lower case.
HeaderNameFromBytes(key) ==
    IF IsToken(key)
    THEN [ok |-> TRUE, val |-> [k \in 1..Len(key) |-> ToLowerByte(key[k])]]
    ELSE [ok |-> FALSE, val |-> <<>>]

\* HeaderValue::from_str: no control byte but TAB, no DEL; the bytes are kept.
IsValueByte(b) == (b >= 32 /\ b # 127) \/ b = 9

\* A conversion that checks nothing.
HeaderValueUnchecked(value) == [ok |-> TRUE, val |-> value]

HeaderValueFromStr(value) ==
    IF \A k \in 1..Len(value) : IsValueByte(value[k])
    THEN [ok |-> TRUE, val |-> value]
    ELSE [ok |-> FALSE, val |-> <<>>]

\* ------------------------------------------------------------------- UTF-8

\* U+FFFD REPLACEMENT CHARACTER
Replacement == 65533

IsCont(b) == b \in 128..191

\* A two-byte lead (0xC2..0xDF).  Longer sequences need bytes >= 0xE0, which no
\* buffer of this model holds.
IsLead2(b) == b \in 194..223

RECURSIVE Utf8Valid(_)
Utf8Valid(s) ==
    IF Len(s) = 0 THEN TRUE
    ELSE IF s[1] < 128 THEN Utf8Valid(Tail(s))
    ELSE IF IsLead2(s[1]) /\ Len(s) >= 2 /\ IsCont(s[2]) THEN Utf8Valid(Tail(Tail(s)))
    ELSE FALSE

\* String::from_utf8_lossy: every invalid byte becomes U+FFFD.
RECURSIVE FromUtf8Lossy(_)
FromUtf8Lossy(s) ==
    IF Len(s) = 0 THEN <<>>
    ELSE IF s[1] < 128 THEN <<s[1]>> \o FromUtf8Lossy(Tail(s))
    ELSE IF IsLead2(s[1]) /\ Len(s) >= 2 /\ IsCont(s[2])
         THEN <<(s[1] - 192) * 64 + (s[2] - 128)>> \o FromUtf8Lossy(Tail(Tail(s)))
    ELSE <<Replacement>> \o FromUtf8Lossy(Tail(s))

\* The UTF-8 encoding of code points below U+0800.
RECURSIVE Utf8Encode(_)
Utf8Encode(cps) ==
    IF Len(cps) = 0 THEN <<>>
    ELSE IF cps[1] < 128 THEN <<cps[1]>> \o Utf8Encode(Tail(cps))
    ELSE <<192 + (cps[1] \div 64), 128 + (cps[1] % 64)>> \o Utf8Encode(Tail(cps))

\* -------------------------------------------------------------------- JSON

JNum(n) == [t |-> "num", v |-> <<n>>]

JStr(cps) == [t |-> "str", v |-> cps]

JArr(elems) == [t |-> "arr", v |-> elems]

IsWs(b) == b \in {32, 10, 13, 9}

IsDigit(b) == b \in 48..57

RECURSIVE SkipWs(_, _)
SkipWs(b, i) == IF i <= Len(b) /\ IsWs(b[i]) THEN SkipWs(b, i + 1) ELSE i

RECURSIVE DigitsEnd(_, _)
DigitsEnd(b, i) == IF i <= Len(b) /\ IsDigit(b[i]) THEN DigitsEnd(b, i + 1) ELSE i

RECURSIVE DigitsValue(_, _, _)
DigitsValue(b, i, j) ==
    IF j < i THEN 0 ELSE DigitsValue(b, i, j - 1) * 10 + (b[j] - 48)

\* The closing quote of the string whose content starts at i, 0 when a control
\* byte or the end of input comes first.
RECURSIVE StrEnd(_, _)
StrEnd(b, i) ==
    IF i > Len(b) \/ b[i] < 32 THEN 0
    ELSE IF b[i] = 34 THEN i
    ELSE StrEnd(b, i + 1)

Fail == [ok |-> FALSE, val |-> JNum(0), pos |-> 0]

\* serde_json's Deserializer::parse_value on the value starting at b[i], for the
\* grammar the byte alphabet of this model can spell: numbers, strings without
\* escapes, arrays.  pos is the index after the value.
RECURSIVE ParseValue(_, _)
RECURSIVE ParseElems(_, _, _)
ParseValue(b, i0) ==
    LET i == SkipWs(b, i0) IN
    IF i > Len(b) THEN Fail
    ELSE IF IsDigit(b[i]) THEN
        LET j == DigitsEnd(b, i) IN
        IF b[i] = 48 /\ j > i + 1 THEN Fail
        ELSE [ok |-> TRUE, val |-> JNum(DigitsValue(b, i, j - 1)), pos |-> j]
    ELSE IF b[i] = 34 THEN
        LET j == StrEnd(b, i + 1) IN
        IF j = 0 THEN Fail
        ELSE LET content == SubSeq(b, i + 1, j - 1) IN
             IF Utf8Valid(content)
             THEN [ok |-> TRUE, val |-> JStr(FromUtf8Lossy(content)), pos |-> j + 1]
             ELSE Fail
    ELSE IF b[i] = 91 THEN
        LET j == SkipWs(b, i + 1) IN
        IF j <= Len(b) /\ b[j] = 93
        THEN [ok |-> TRUE, val |-> JArr(<<>>), pos |-> j + 1]
        ELSE ParseElems(b, j, <<>>)
    ELSE Fail

\* The elements of an array after "[" or ",": a value, then "," or "]".
ParseElems(b, i, acc) ==
    LET r == ParseValue(b, i) IN
    IF ~r.ok THEN Fail
    ELSE LET j == SkipWs(b, r.pos) IN
         IF j > Len(b) THEN Fail
         ELSE IF b[j] = 93
              THEN [ok |-> TRUE, val |-> JArr(Append(acc, r.val)), pos |-> j + 1]
         ELSE IF b[j] = 44 THEN ParseElems(b, j + 1, Append(acc, r.val))
         ELSE Fail

\* serde_json::from_slice: one value, then only whitespace.
FromSlice(b) ==
    LET r == ParseValue(b, 1) IN
    IF r.ok /\ SkipWs(b, r.pos) > Len(b) THEN [ok |-> TRUE, val |-> r.val]
    ELSE [ok |-> FALSE, val |-> JNum(0)]

RECURSIVE Digits(_)
Digits(n) == IF n < 10 THEN <<48 + n>> ELSE Digits(n \div 10) \o <<48 + (n % 10)>>

\* serde_json::to_vec of a Value: compact, no whitespace.
RECURSIVE ToVec(_)
RECURSIVE ElemsToVec(_)
ToVec(j) ==
    IF j.t = "num" THEN Digits(j.v[1])
    ELSE IF j.t = "str" THEN <<34>> \o Utf8Encode(j.v) \o <<34>>
    ELSE <<91>> \o ElemsToVec(j.v) \o <<93>>

ElemsToVec(es) ==
    IF Len(es) = 0 THEN <<>>
    ELSE IF Len(es) = 1 THEN ToVec(es[1])
    ELSE ToVec(es[1]) \o <<44>> \o ElemsToVec(Tail(es))

\* ------------------------------------------------------- reqwest's builder

\* The URLs a descriptor may carry.  Url::parse accepts the absolute one and
\* rejects the relative one; the text of a URL is otherwise not looked at.
AbsoluteUrls == {"https://example.test/ok"}

Urls == AbsoluteUrls \cup {"/relative"}

IntoUrl(url) == [ok |-> url \in AbsoluteUrls, val |-> url]

\* A header map: a function from (lower-case) header names to values.
EmptyMap == [n \in {} |-> <<>>]

\* HeaderMap::insert: the value replaces the one the name had.
Insert(map, name, value) ==
    [n \in DOMAIN map \cup {name} |-> IF n = name THEN value ELSE map[n]]

\* client.request(method, &request.url): Err when the URL does not parse.
NewBuilder(method, url) ==
    [ok |-> IntoUrl(url).ok,
     req |-> [method |-> method, url |-> url, headers |-> EmptyMap, body |-> None]]

\* RequestBuilder::headers: every header of the map replaces the request's.
Headers(builder, map) ==
    IF builder.ok
    THEN [builder EXCEPT !.req.headers =
              [n \in DOMAIN @ \cup DOMAIN map |-> IF n \in DOMAIN map THEN map[n] ELSE @[n]]]
    ELSE builder

\* A json() that sets Content-Type over the one the request has.
JsonOverride(builder, value) ==
    IF builder.ok
    THEN [builder EXCEPT !.req.body = Some(ToVec(value)),
                         !.req.headers = Insert(@, H_content_type, V_application_json)]
    ELSE builder

\* RequestBuilder::json: the body, and Content-Type unless the request has one.
Json(builder, value) ==
    IF builder.ok
    THEN [builder EXCEPT !.req.body = Some(ToVec(value)),
                         !.req.headers = IF H_content_type \in DOMAIN @ THEN @
                                         ELSE Insert(@, H_content_type, V_application_json)]
    ELSE builder

\* The default headers of reqwest::Client::new().
DefaultHeaders == [n \in {H_accept} |-> V_any]

\* What Client::execute puts on the wire: the request, and each default header
\* whose name the request does not carry.
Execute(req) ==
    [req EXCEPT !.headers =
         [n \in DOMAIN @ \cup DOMAIN DefaultHeaders |->
              IF n \in DOMAIN @ THEN @[n] ELSE DefaultHeaders[n]]]

\* ------------------------------------------------------------ the outcomes

Err(prefix, key) == [kind |-> "err", prefix |-> prefix, key |-> key]

\* A success range that takes 300 in.
IsSuccessInclusive(status) == 300 >= status /\ status >= 200

\* StatusCode::is_success
IsSuccess(status) == 300 > status /\ status >= 200

\* A body that is always the text, JSON or not.
TextBody(bytes) == JStr(FromUtf8Lossy(bytes))

\* serde_json::from_slice(&bytes).unwrap_or_else(|_| Value::String(lossy))
JsonBody(bytes) ==
    LET r == FromSlice(bytes) IN
    IF r.ok THEN r.val ELSE JStr(FromUtf8Lossy(bytes))

HttpResponse(status, bytes) ==
    [kind |-> "ok", status |-> status, ok |-> IsSuccess(status), body |-> JsonBody(bytes)]

\* ------------------------------------------------------------------ inputs

Methods == {M_GET, M_get, M_G_E_T, M_empty}

HeaderKeys == {H_ContentType, H_content_type, H_Accept, H_b_d}

HeaderValues == {V_text_plain, V_text_html, V_a_nl_b}

HeaderMaps == UNION {[K -> HeaderValues] : K \in SUBSET HeaderKeys}

JsonBodies == {JNum(10), JStr(<<104, 233>>), JArr(<<JNum(1), JArr(<<>>)>>)}

HttpRequest(method, url, headers, body) ==
    [method |-> method, url |-> url, headers |-> headers, body |-> body]

\* Every descriptor over the sample strings.
Descs ==
    {HttpRequest(m, u, h, b) :
        m \in Methods, u \in Urls,
        h \in {None} \cup {Some(hm) : hm \in HeaderMaps},
        b \in {None} \cup {Some(j) : j \in JsonBodies}}

\* The descriptors of the runs in which the server may answer any bytes.
FewDescs ==
    {HttpRequest(M_GET, "https://example.test/ok", h, None) :
        h \in {None, Some([n \in {H_Accept} |-> V_text_html])}}

\* The descriptors of two concurrent invocations.
PairDescs ==
    {HttpRequest(m, "https://example.test/ok", h, b) :
        m \in {M_GET, M_G_E_T},
        h \in {None,
               Some([n \in {H_Accept} |-> V_text_html]),
               Some([n \in {H_ContentType, H_content_type} |->
                        IF n = H_ContentType THEN V_text_plain ELSE V_text_html]),
               Some([n \in {H_b_d, H_Accept} |->
                        IF n = H_b_d THEN V_text_plain ELSE V_a_nl_b])},
        b \in {None, Some(JNum(10))}}

\* The bytes a response body is made of: 1 " h space [ ] and the two bytes of
\* U+00E9, each of which alone is invalid UTF-8.
ByteAlphabet == {49, 34, 104, 32, 91, 93, 195, 169}

AnyBytes == UNION {[1..k -> ByteAlphabet] : k \in 0..MaxBodyLen}

\* What the server may answer, by the kind of run.
ServerStatuses(d) ==
    IF d = "pair" THEN {200, 404} ELSE {100, 199, 200, 299, 300, 404, 999}

ServerBodies(d) ==
    IF d = "any" THEN AnyBytes
    ELSE IF d = "pair" THEN {<<49, 49>>, <<104>>}
    ELSE {<<>>, <<104>>, <<34, 104, 34>>, <<91, 49, 93>>, <<195>>}

\* ------------------------------------------------------------------- state

VARIABLES
    dom,          \* the kind of run: which answers the server may give
    desc,         \* desc[i]: the HttpRequest invocation i was called with
    pc,           \* pc[i]: where invocation i stands in http_request
    builder,      \* builder[i]: the RequestBuilder (a Result<Request>)
    todo,         \* todo[i]: the keys the loop over request.headers has left
    header_map,   \* header_map[s]: the HeaderMap the loop fills
    resp,         \* resp[i]: what the network delivered: status, body bytes
    sent,         \* sent[i]: the requests put on the wire, in order
    log,          \* log[i]: the steps taken, in order
    outcome       \* outcome[i]: None, or Some(the Result returned)

vars == <<dom, desc, pc, builder, todo, header_map, resp, sent, log, outcome>>

NoDesc == HttpRequest(<<>>, "", None, None)

NoResp == [send |-> "none", status |-> 0, read |-> "none", bytes |-> <<>>]

Event(ev, key) == [ev |-> ev, key |-> key]

\* One HeaderMap for every invocation.
SharedSlot(i) == 1

\* The HeaderMap invocation i works on: a local of its own call frame.
Slot(i) == i

InitWith(kind, called, descs) ==
    /\ dom = kind
    /\ \E d0 \in [called -> descs] :
         desc = [i \in Inv |-> IF i \in called THEN d0[i] ELSE NoDesc]
    /\ pc = [i \in Inv |-> IF i \in called THEN "parse" ELSE "idle"]
    /\ builder = [i \in Inv |-> NewBuilder(<<>>, "")]
    /\ todo = [i \in Inv |-> {}]
    /\ header_map = [i \in Inv |-> EmptyMap]
    /\ resp = [i \in Inv |-> NoResp]
    /\ sent = [i \in Inv |-> <<>>]
    /\ log = [i \in Inv |-> <<>>]
    /\ outcome = [i \in Inv |-> None]

Init == InitWith("sample", {1}, Descs)

InitAny == InitWith("any", {1}, FewDescs)

InitPair == InitWith("pair", Inv, PairDescs)

\* The invocation ends with `result`.
Return(i, result) ==
    /\ outcome' = [outcome EXCEPT ![i] = Some(result)]
    /\ pc' = [pc EXCEPT ![i] = "done"]

\* A transport error that sends again.
RetryOnTransportError(i) == UNCHANGED <<pc, outcome>>

\* Line 50: a transport error ends the invocation with its message.
OnTransportError(i) == Return(i, Err("request failed:", None))

\* A failed read that returns the status with an empty body.
PartialOnReadError(i) ==
    Return(i, [kind |-> "ok", status |-> resp[i].status,
               ok |-> IsSuccess(resp[i].status), body |-> JStr(<<>>)])

\* Line 56: a failed read of the body ends the invocation with its message.
OnReadError(i) == Return(i, Err("failed to read response body:", None))

\* Lines 23-29: parse the method, make the client and the builder.
ParseMethodStep(i) ==
    /\ pc[i] = "parse"
    /\ LET m == ParseMethod(desc[i].method) IN
       IF ~m.ok
       THEN /\ Return(i, Err("invalid method:", None))
            /\ UNCHANGED <<builder, todo, log>>
       ELSE /\ builder' = [builder EXCEPT ![i] = NewBuilder(m.val, desc[i].url)]
            /\ todo' = [todo EXCEPT ![i] =
                   IF IsSome(desc[i].headers) THEN DOMAIN Unwrap(desc[i].headers) ELSE {}]
            /\ pc' = [pc EXCEPT ![i] = IF IsSome(desc[i].headers) THEN "headers" ELSE "body"]
            /\ log' = [log EXCEPT ![i] = Append(@, Event("method", None))]
            /\ UNCHANGED outcome
    /\ UNCHANGED <<dom, desc, header_map, resp, sent>>

\* Lines 33-39: one turn of the loop, on whichever key the HashMap yields next.
HeaderStep(i) ==
    /\ pc[i] = "headers"
    /\ \E key \in todo[i] :
         LET value == Unwrap(desc[i].headers)[key]
             name == HeaderNameFromBytes(key)
             header_value == HeaderValueFromStr(value)
         IN IF ~name.ok
            THEN /\ Return(i, Err("invalid header name", Some(key)))
                 /\ log' = [log EXCEPT ![i] = Append(@, Event("header_err", Some(key)))]
                 /\ UNCHANGED <<todo, header_map>>
            ELSE IF ~header_value.ok
            THEN /\ Return(i, Err("invalid header value for", Some(key)))
                 /\ log' = [log EXCEPT ![i] = Append(@, Event("header_err", Some(key)))]
                 /\ UNCHANGED <<todo, header_map>>
            ELSE /\ header_map' = [header_map EXCEPT ![Slot(i)] =
                        Insert(@, name.val, header_value.val)]
                 /\ todo' = [todo EXCEPT ![i] = @ \ {key}]
                 /\ log' = [log EXCEPT ![i] = Append(@, Event("header_ok", Some(key)))]
                 /\ UNCHANGED <<pc, outcome>>
    /\ UNCHANGED <<dom, desc, builder, resp, sent>>

\* Line 40: the loop is over, the map goes on the builder.
AttachHeaders(i) ==
    /\ pc[i] = "headers"
    /\ todo[i] = {}
    /\ builder' = [builder EXCEPT ![i] = Headers(@, header_map[Slot(i)])]
    /\ pc' = [pc EXCEPT ![i] = "body"]
    /\ UNCHANGED <<dom, desc, todo, header_map, resp, sent, log, outcome>>

\* Lines 43-45: the JSON body, when the descriptor has one.
SetBody(i) ==
    /\ pc[i] = "body"
    /\ builder' = [builder EXCEPT ![i] =
           IF IsSome(desc[i].body) THEN Json(@, Unwrap(desc[i].body)) ELSE @]
    /\ pc' = [pc EXCEPT ![i] = "send"]
    /\ UNCHANGED <<dom, desc, todo, header_map, resp, sent, log, outcome>>

\* Lines 47-52: send().await.  A builder in error fails without a request; a
\* request goes on the wire once, and the transport fails or a status arrives.
Send(i) ==
    /\ pc[i] = "send"
    /\ IF ~builder[i].ok
       THEN /\ Return(i, Err("request failed:", None))
            /\ UNCHANGED <<resp, sent, log>>
       ELSE /\ sent' = [sent EXCEPT ![i] = Append(@, Execute(builder[i].req))]
            /\ log' = [log EXCEPT ![i] = Append(@, Event("dispatch", None))]
            /\ \E r \in {0} \cup ServerStatuses(dom) :
                 IF r = 0
                 THEN /\ resp' = [resp EXCEPT ![i].send = "fail"]
                      /\ OnTransportError(i)
                 ELSE /\ resp' = [resp EXCEPT ![i].send = "ok", ![i].status = r]
                      /\ pc' = [pc EXCEPT ![i] = "read"]
                      /\ UNCHANGED outcome
    /\ UNCHANGED <<dom, desc, builder, todo, header_map>>

\* Lines 53-56: bytes().await.  The body arrives whole or the read fails.
ReadBody(i) ==
    /\ pc[i] = "read"
    /\ \E whole \in BOOLEAN :
         IF ~whole
         THEN /\ resp' = [resp EXCEPT ![i].read = "fail"]
              /\ OnReadError(i)
              /\ UNCHANGED log
         ELSE /\ \E b \in ServerBodies(dom) :
                   resp' = [resp EXCEPT ![i].read = "ok", ![i].bytes = b]
              /\ pc' = [pc EXCEPT ![i] = "decode"]
              /\ log' = [log EXCEPT ![i] = Append(@, Event("read", None))]
              /\ UNCHANGED outcome
    /\ UNCHANGED <<dom, desc, builder, todo, header_map, sent>>

\* Lines 58-66: decode the body and return the response.
Respond(i) ==
    /\ pc[i] = "decode"
    /\ Return(i, HttpResponse(resp[i].status, resp[i].bytes))
    /\ UNCHANGED <<dom, desc, builder, todo, header_map, resp, sent, log>>

Next ==
    \E i \in Inv :
        \/ ParseMethodStep(i)
        \/ HeaderStep(i)
        \/ AttachHeaders(i)
        \/ SetBody(i)
        \/ Send(i)
        \/ ReadBody(i)
        \/ Respond(i)

\* ------------------------------------------------ the command, run alone

\* The loop of lines 33-39 over the keys in the order `ord`.
RECURSIVE FoldHeaders(_, _, _)
FoldHeaders(headers, ord, map) ==
    IF Len(ord) = 0 THEN [ok |-> TRUE, map |-> map, err |-> Err("", None)]
    ELSE LET key == Head(ord)
             name == HeaderNameFromBytes(key)
             header_value == HeaderValueFromStr(headers[key])
         IN IF ~name.ok
            THEN [ok |-> FALSE, map |-> map, err |-> Err("invalid header name", Some(key))]
            ELSE IF ~header_value.ok
            THEN [ok |-> FALSE, map |-> map,
                  err |-> Err("invalid header value for", Some(key))]
            ELSE FoldHeaders(headers, Tail(ord), Insert(map, name.val, header_value.val))

\* http_request from its first line to its last, for a descriptor d, the order
\* ord in which the HashMap yields its keys, and the network's behaviour rsp:
\* what it returns and what it puts on the wire.
Solo(d, ord, rsp) ==
    LET m == ParseMethod(d.method)
        h == IF IsSome(d.headers) THEN FoldHeaders(Unwrap(d.headers), ord, EmptyMap)
             ELSE [ok |-> TRUE, map |-> EmptyMap, err |-> Err("", None)]
        b0 == NewBuilder(m.val, d.url)
        b1 == IF IsSome(d.headers) THEN Headers(b0, h.map) ELSE b0
        b2 == IF IsSome(d.body) THEN Json(b1, Unwrap(d.body)) ELSE b1
        wire == <<Execute(b2.req)>>
    IN IF ~m.ok THEN [outcome |-> Err("invalid method:", None), sent |-> <<>>]
       ELSE IF ~h.ok THEN [outcome |-> h.err, sent |-> <<>>]
       ELSE IF ~b2.ok THEN [outcome |-> Err("request failed:", None), sent |-> <<>>]
       ELSE IF rsp.send = "fail"
            THEN [outcome |-> Err("request failed:", None), sent |-> wire]
       ELSE IF rsp.read = "fail"
            THEN [outcome |-> Err("failed to read response body:", None), sent |-> wire]
       ELSE [outcome |-> HttpResponse(rsp.status, rsp.bytes), sent |-> wire]

\* One invocation, every descriptor, sample answers.
Spec == Init /\ [][Next]_vars

\* One invocation, the server answers any bytes.
SpecAny == InitAny /\ [][Next]_vars

\* Two concurrent invocations.
SpecPair == InitPair /\ [][Next]_vars
\* ------------------------------------------------------------- the claims

Called(i) == desc[i] # NoDesc

Done(i) == pc[i] = "done"

\* The headers map of invocation i's descriptor, empty when it has none.
HeadersOf(i) == IF IsSome(desc[i].headers) THEN Unwrap(desc[i].headers) ELSE EmptyMap

Keys(i) == DOMAIN HeadersOf(i)

BadName(key) == ~IsToken(key)

BadValue(value) == \E k \in 1..Len(value) : ~IsValueByte(value[k])

Lower(s) == [k \in 1..Len(s) |-> ToLowerByte(s[k])]

\* The keys the loop has taken, in order, whether they passed or not.
RECURSIVE KeysOf(_)
KeysOf(events) ==
    IF Len(events) = 0 THEN <<>>
    ELSE IF Head(events).ev \in {"header_ok", "header_err"}
         THEN <<Unwrap(Head(events).key)>> \o KeysOf(Tail(events))
    ELSE KeysOf(Tail(events))

Order(i) == KeysOf(log[i])

\* The places of event ev in invocation i's log.
Places(i, ev) == {k \in 1..Len(log[i]) : log[i][k].ev = ev}

IsFull(o) == DOMAIN o = {"kind", "status", "ok", "body"} /\ o.kind = "ok"

ErrorPrefixes ==
    {"invalid method:", "invalid header name", "invalid header value for",
     "request failed:", "failed to read response body:"}

IsFailure(o) ==
    DOMAIN o = {"kind", "prefix", "key"} /\ o.kind = "err" /\ o.prefix \in ErrorPrefixes

\* C1: an invocation whose method is not a token never gets past the method
\* parse, puts nothing on the wire and sees no network answer, and when it ends
\* it ends with the error "invalid method:", whatever its url, headers and body.
C1_InvalidMethod ==
    \A i \in Inv :
        (Called(i) /\ ~IsToken(desc[i].method)) =>
            /\ pc[i] \in {"parse", "done"}
            /\ sent[i] = <<>>
            /\ resp[i] = NoResp
            /\ Done(i) => outcome[i] = Some(Err("invalid method:", None))

\* "G E T" with an absolute url, headers and a body has failed.
C1_Witness ==
    /\ desc[1].method = M_G_E_T
    /\ desc[1].url \in AbsoluteUrls
    /\ IsSome(desc[1].headers)
    /\ IsSome(desc[1].body)
    /\ outcome[1] = Some(Err("invalid method:", None))

\* C2: an invocation with a valid method and a headers map holding a malformed
\* name or value never leaves the header loop except by failing, puts nothing on
\* the wire, and ends with "invalid header name" naming a key that is no token
\* or with "invalid header value for" naming a key whose value is malformed.
C2_InvalidHeader ==
    \A i \in Inv :
        (/\ Called(i)
         /\ IsToken(desc[i].method)
         /\ \E k \in Keys(i) : BadName(k) \/ BadValue(HeadersOf(i)[k])) =>
            /\ pc[i] \in {"parse", "headers", "done"}
            /\ sent[i] = <<>>
            /\ resp[i] = NoResp
            /\ Done(i) =>
                 /\ IsSome(outcome[i])
                 /\ LET o == Unwrap(outcome[i]) IN
                    /\ o.kind = "err"
                    /\ IsSome(o.key)
                    /\ Unwrap(o.key) \in Keys(i)
                    /\ \/ o.prefix = "invalid header name" /\ BadName(Unwrap(o.key))
                       \/ /\ o.prefix = "invalid header value for"
                          /\ BadValue(HeadersOf(i)[Unwrap(o.key)])

\* A map of several headers failed on the malformed value of Accept.
C2_Witness ==
    /\ Cardinality(Keys(1)) >= 3
    /\ desc[1].url \in AbsoluteUrls
    /\ outcome[1] = Some(Err("invalid header value for", Some(H_Accept)))

\* C3: a returned response carries the status the server sent, and its ok is
\* true exactly when 200 <= status <= 299.
C3_OkIffSuccess ==
    \A i \in Inv :
        (IsSome(outcome[i]) /\ Unwrap(outcome[i]).kind = "ok") =>
            LET o == Unwrap(outcome[i]) IN
            /\ o.status = resp[i].status
            /\ o.ok = (200 <= o.status /\ o.status <= 299)

\* A 299 answer whose body is not JSON came back ok.
C3_Witness ==
    /\ IsSome(outcome[1])
    /\ Unwrap(outcome[1]).kind = "ok"
    /\ Unwrap(outcome[1]).status = 299
    /\ Unwrap(outcome[1]).ok
    /\ resp[1].bytes = <<195>>

\* C4: once the body bytes are read the invocation can only return a response,
\* whose body is the JSON value the bytes spell when they spell one and else the
\* string of their lossy UTF-8 decoding: "h" gives the string h, no bytes the
\* empty string, a lone 0xC3 the string U+FFFD, 1 the number 1.
C4_BodyFromBytes ==
    \A i \in Inv :
        resp[i].read = "ok" =>
            /\ pc[i] \in {"decode", "done"}
            /\ Done(i) =>
                 /\ IsSome(outcome[i])
                 /\ IsFull(Unwrap(outcome[i]))
                 /\ LET body == Unwrap(outcome[i]).body
                        bytes == resp[i].bytes
                        json == FromSlice(bytes)
                    IN /\ json.ok => body = json.val
                       /\ ~json.ok => body = JStr(FromUtf8Lossy(bytes))
                       /\ bytes = <<104>> => body = JStr(<<104>>)
                       /\ bytes = <<>> => body = JStr(<<>>)
                       /\ bytes = <<195>> => body = JStr(<<Replacement>>)
                       /\ bytes = <<49>> => body = JNum(1)
                       /\ bytes = <<34, 104, 34>> => body = JStr(<<104>>)

\* The bytes h 0xC3 came back as the string h U+FFFD.
C4_Witness ==
    /\ Done(1)
    /\ resp[1].bytes = <<104, 195>>
    /\ Unwrap(outcome[1]).body = JStr(<<104, Replacement>>)

C6_Original ==
    \A i \in Inv :
        sent[i] # <<>> =>
            LET r == sent[i][1] IN
            /\ IsSome(r.body) <=> IsSome(desc[i].body)
            /\ IsSome(desc[i].body) =>
                 /\ r.body = Some(ToVec(Unwrap(desc[i].body)))
                 /\ H_content_type \in DOMAIN r.headers
                 /\ r.headers[H_content_type] = V_application_json

\* C6 amended: a request on the wire has a body exactly when the descriptor has
\* one; the body is its JSON serialization (it parses back to the value); the
\* content type is application/json unless the caller gave a Content-Type header
\* in any letter case, and then it is a value the caller gave for it.
C6_JsonBody ==
    \A i \in Inv :
        sent[i] # <<>> =>
            LET r == sent[i][1]
                given == {k \in Keys(i) : Lower(k) = H_content_type}
            IN /\ IsSome(r.body) <=> IsSome(desc[i].body)
               /\ IsSome(desc[i].body) =>
                    /\ r.body = Some(ToVec(Unwrap(desc[i].body)))
                    /\ FromSlice(Unwrap(r.body)) = [ok |-> TRUE, val |-> Unwrap(desc[i].body)]
                    /\ desc[i].body = Some(JNum(10)) => r.body = Some(<<49, 48>>)
                    /\ H_content_type \in DOMAIN r.headers
                    /\ given = {} => r.headers[H_content_type] = V_application_json
                    /\ given # {} =>
                         r.headers[H_content_type] \in {HeadersOf(i)[k] : k \in given}

\* A body went out under the caller's Content-Type: text/plain.
C6_Witness ==
    /\ sent[1] # <<>>
    /\ IsSome(desc[1].body)
    /\ Keys(1) = {H_ContentType, H_Accept}
    /\ HeadersOf(1)[H_ContentType] = V_text_plain
    /\ sent[1][1].headers[H_content_type] = V_text_plain
    /\ sent[1][1].body = Some(ToVec(Unwrap(desc[1].body)))

\* C7: a request on the wire carries every header of the descriptor's map: the
\* header of each key's name has that key's value.
C7_AllHeadersSent ==
    \A i \in Inv :
        sent[i] # <<>> =>
            \A k \in Keys(i) :
                /\ Lower(k) \in DOMAIN sent[i][1].headers
                /\ sent[i][1].headers[Lower(k)] = HeadersOf(i)[k]

Local(i) ==
    <<desc[i], pc[i], builder[i], todo[i], header_map[i], resp[i], sent[i], log[i],
      outcome[i]>>

\* An invocation that is done returned, and put on the wire, what the command
\* run alone returns and puts on the wire for its descriptor, its key order and
\* its network behaviour.
SoloOutcome ==
    \A i \in Inv :
        Done(i) =>
            LET solo == Solo(desc[i], Order(i), resp[i]) IN
            /\ outcome[i] = Some(solo.outcome)
            /\ sent[i] = solo.sent

\* C9: under every interleaving of two invocations, each has the outcome of the
\* command run alone, and no step changes the state of more than one invocation.
C9_NoInterference ==
    /\ []SoloOutcome
    /\ [][\A i \in Inv : \A j \in Inv \ {i} :
             Local(i)' # Local(i) => Local(j)' = Local(j)]_vars

\* Invocation 1 is done and was answered while invocation 2, which filled a
\* header map of its own, still waits for its body.
C9_Witness ==
    /\ Done(1)
    /\ pc[2] = "read"
    /\ IsFull(Unwrap(outcome[1]))
    /\ header_map[1] # EmptyMap
    /\ header_map[2] # EmptyMap
    /\ header_map[1] # header_map[2]

\* C10: two invocations with equal descriptors and the same network behaviour
\* return the same result and put the same request on the wire.
C10_Deterministic ==
    (/\ Done(1)
     /\ Done(2)
     /\ desc[1] = desc[2]
     /\ resp[1] = resp[2]) =>
        /\ outcome[1] = outcome[2]
        /\ sent[1] = sent[2]
====
